---- MODULE Spec2Model ----
(***************************************************************************)
(* The multi-provider text-generation routers of asttle/ai-devops-agent:   *)
(*   LLMGateway  (src/backend/services/llm_gateway.py)                     *)
(*   LLMManager  (src/src/llm/llm_providers.py)                            *)
(* Each request is a coroutine on one asyncio event loop.  A step of the   *)
(* model is the code a coroutine runs between two suspension points; the   *)
(* suspension points are the awaited vendor calls (acompletion, the httpx  *)
(* posts) and, for a stream, each read of the vendor's stream.  The cache  *)
(* operations are synchronous and belong to the step that makes them.      *)
(* Money is counted in units of 1e-8 dollar so that the arithmetic is      *)
(* exact on integers.  Wall-clock fields (duration, timestamp) are left    *)
(* out.                                                                    *)
(***************************************************************************)
EXTENDS Integers, Sequences, FiniteSets, TLC

VARIABLES
    component,        \* which router this run exercises: "gateway" or "manager"
    settings,         \* the settings fields (LLMManager: environment variables) that are set
    providers,        \* LLMGateway.providers / LLMManager.providers: key -> descriptor
    fallback_order,   \* self.fallback_order
    cache_enabled,    \* LLMGateway.semantic_cache is not None
    cache_store,      \* the entries of the cache backend: set of [key, value]
    ollama_up,        \* what the Ollama probe (GET /api/version) answers now
    loop_owner,       \* the request whose blocking call holds the event loop, or 0
    cheapest,         \* what get_cheapest_provider returned last
    req               \* per request: the coroutine's locals and what it returned

vars == <<component, settings, providers, fallback_order, cache_enabled, cache_store,
          ollama_up, loop_owner, cheapest, req>>

\* Python's None, as a provider argument
None == "None"

\* get_cheapest_provider has not been called
Unasked == "unasked"

\* ------------------------------------------------------------------ bounds
NReq == 2
MaxChunks == 2

Reqs == 1..NReq

\* --------------------------------------------------------------- helpers
Range(s) == {s[i] : i \in 1..Len(s)}

RECURSIVE SelectSeqBy(_, _)
\* the subsequence of s whose elements are in set S
SelectSeqBy(s, S) ==
    IF s = <<>> THEN <<>>
    ELSE (IF Head(s) \in S THEN <<Head(s)>> ELSE <<>>) \o SelectSeqBy(Tail(s), S)

\* ------------------------------------------------- LLMGateway: construction
\* the settings fields _init_providers reads; a settings value is the set of
\* the fields that are truthy (a non-empty string)
SettingsFields == {"google_gemini_api_key", "openai_api_key", "azure_openai_api_key",
                   "azure_openai_endpoint", "openrouter_api_key"}

\* the configurations the main specification starts from
SettingsChoices ==
    { {},
      {"google_gemini_api_key", "openai_api_key"},
      {"openai_api_key", "azure_openai_api_key"} }

\* LLMProvider.__init__: is_available = bool(api_key)
LLMProvider(name, model, api_key, cost_per_1k_tokens) ==
    [name |-> name, model |-> model, cost_per_1k_tokens |-> cost_per_1k_tokens,
     is_available |-> api_key]

\* the descriptors _init_providers builds (cost in 1e-8 dollar per token:
\* 0.30 per 1K tokens is 30000, 3.00 per 1K tokens is 300000)
GatewayDescriptor(k, s) ==
    CASE k = "gemini" ->
           LLMProvider("Google Gemini", "gemini/gemini-1.5-flash",
                       "google_gemini_api_key" \in s, 0)
      [] k = "openai" ->
           LLMProvider("OpenAI GPT-4", "gpt-4o-mini", "openai_api_key" \in s, 30000)
      [] k = "azure_openai" ->
           LLMProvider("Azure OpenAI", "azure/gpt-4o-2024-08-06",
                       "azure_openai_api_key" \in s, 30000)
      [] k = "openrouter_cheap" ->
           LLMProvider("OpenRouter (Cheap)",
                       "openrouter/meta-llama/llama-3.1-8b-instruct:free",
                       "openrouter_api_key" \in s, 0)
      [] k = "openrouter_premium" ->
           LLMProvider("OpenRouter (Premium)", "openrouter/anthropic/claude-3.5-sonnet",
                       "openrouter_api_key" \in s, 300000)

\* the registration with Azure OpenAI registered on its key alone
GatewayFallbackOrderAzureKeyOnly(s) ==
    (IF "google_gemini_api_key" \in s THEN <<"gemini">> ELSE <<>>)
    \o (IF "openai_api_key" \in s THEN <<"openai">> ELSE <<>>)
    \o (IF "azure_openai_api_key" \in s THEN <<"azure_openai">> ELSE <<>>)
    \o (IF "openrouter_api_key" \in s
        THEN <<"openrouter_cheap", "openrouter_premium">> ELSE <<>>)

\* _init_providers: the keys appended to fallback_order, in the order of the ifs
GatewayFallbackOrder(s) ==
    (IF "google_gemini_api_key" \in s THEN <<"gemini">> ELSE <<>>)
    \o (IF "openai_api_key" \in s THEN <<"openai">> ELSE <<>>)
    \o (IF "azure_openai_api_key" \in s /\ "azure_openai_endpoint" \in s
        THEN <<"azure_openai">> ELSE <<>>)
    \o (IF "openrouter_api_key" \in s
        THEN <<"openrouter_cheap", "openrouter_premium">> ELSE <<>>)

\* a registry with an entry for every provider, credential or not
GatewayProvidersAllKeys(s) ==
    [k \in {"gemini", "openai", "azure_openai", "openrouter_cheap", "openrouter_premium"}
       |-> GatewayDescriptor(k, s)]

\* _init_providers: self.providers
GatewayProviders(s) ==
    [k \in Range(GatewayFallbackOrder(s)) |-> GatewayDescriptor(k, s)]

\* ------------------------------------------------------- request inputs
Message(role, content) == [role |-> role, content |-> content]

\* the message lists a caller passes: the second and the third differ as
\* sequences and join to the same text
MessageChoices ==
    { <<Message("user", "a")>>,
      <<Message("system", "a"), Message("user", "b")>>,
      <<Message("user", "a b")>> }

\* the provider argument: absent, a registered key, a key that is registered
\* in no configuration
ProviderChoices == {None, "openai", "bogus"}

Args(messages, provider, stream, use_cache) ==
    [messages |-> messages, provider |-> provider, stream |-> stream,
     use_cache |-> use_cache]

\* the calls of generate_response the callers make: cached requests with every
\* message list, and uncached and streaming requests with one message list
\* (neither path reads the messages)
ArgChoices ==
    {Args(m, p, FALSE, TRUE) : m \in MessageChoices, p \in {None, "openai"}}
    \cup {Args(<<Message("user", "a")>>, p, FALSE, FALSE) : p \in ProviderChoices}
    \cup {Args(<<Message("user", "a")>>, p, TRUE, TRUE) : p \in {None, "openai"}}

\* what a vendor call can answer: a completion, with or without a usage
\* record, or an exception with the text str(e) gives
Usage(p, c) == [prompt_tokens |-> p, completion_tokens |-> c, total_tokens |-> p + c]
NoUsage == Usage(0, 0)
\* a usage record as the vendor reports it: three counts read one by one
VendorUsage(p, c, t) == [prompt_tokens |-> p, completion_tokens |-> c, total_tokens |-> t]
\* the usage records a vendor reports: one whose total is the sum of the two
\* counts, one whose total counts further tokens
UsageChoices == {Usage(100, 50), VendorUsage(100, 50, 160)}
ContentChoices == {"x", "y"}
ErrorDetails == {"timeout"}
OkReplies ==
    {reply \in {[ok |-> TRUE, content |-> c, has_usage |-> TRUE, usage |-> u, detail |-> ""] :
                    c \in ContentChoices, u \in UsageChoices} :
        reply.content = "x" \/ reply.usage = Usage(100, 50)}
    \cup {[ok |-> TRUE, content |-> c, has_usage |-> FALSE, usage |-> NoUsage, detail |-> ""] :
        c \in ContentChoices}

\* what a provider of LLMManager can be answered: the routers read no content
ManagerReplies == {reply \in OkReplies : reply.content = "x"}

\* the fragments a vendor stream can deliver (delta.content may be empty)
ChunkChoices == {"", "ab", "cde"}

\* ------------------------------------------------------ request records
NoResult ==
    [content |-> "", provider |-> "", model |-> "", usage |-> NoUsage,
     usage_keys |-> TRUE, cost |-> 0]
NoError == [type |-> "", message |-> "", entries |-> <<>>, last_error |-> ""]
NoArgs == Args(<<>>, None, FALSE, FALSE)
NoEntry == [key |-> "", value |-> NoResult, by |-> 0, messages |-> <<>>]

IdleRequest ==
    [pc |-> "idle",          \* idle, awaiting (a vendor call), stream, done
     args |-> NoArgs,
     order |-> <<>>,         \* provider_order / providers_to_try
     idx |-> 0,              \* the position of the loop in order
     calls |-> <<>>,         \* history: the providers called, in order; every call but
                             \* the last has failed, the last is pending while pc is
                             \* awaiting, succeeded iff outcome is response
     lookups |-> <<>>,       \* history: how each cache lookup ended: hit, miss, error
     vendor |-> [status |-> "none", content |-> ""],
                             \* history: how the latest vendor call ended: ok (with the
                             \* content), no_usage, raised
     hit |-> NoEntry,        \* history: the entry a hit returned
     store |-> "none",       \* history: how the cache write ended: stored, error
     after |-> {},           \* history: the requests that had returned when this began
     outcome |-> "none",     \* response, cached, raised, stream
     result |-> NoResult,
     error |-> NoError,
     last_error |-> None,    \* LLMManager.generate_response: last_error
     gen |-> "none",         \* the async generator: created, opening, open (awaiting a
                             \* fragment), yielded (suspended at a chunk event), final,
                             \* error (suspended at the terminal event), closed
     stopped |-> FALSE,      \* the consumer has stopped iterating before the terminal event
     reads |-> 0,            \* fragments read from the vendor stream
     full_content |-> "",
     events |-> <<>>]        \* the events the generator has yielded

Returned(q) == q.pc \in {"done", "stream"}

\* ------------------------------------------------- LLMGateway: the router
Reverse(s) == [i \in 1..Len(s) |-> s[Len(s) + 1 - i]]

\* the provider order with the fallback list walked from its end
ProviderOrderReversed(provider) ==
    IF provider # None /\ provider \in DOMAIN providers
    THEN <<provider>>
    ELSE Reverse(fallback_order)

\* a provider order that has nothing to try for a name that is not registered
ProviderOrderUnknownFails(provider) ==
    IF provider = None THEN fallback_order
    ELSE IF provider \in DOMAIN providers THEN <<provider>>
    ELSE <<>>

\* generate_response, "Determine provider order"
ProviderOrder(provider) ==
    IF provider # None /\ provider \in DOMAIN providers
    THEN <<provider>>
    ELSE fallback_order

RECURSIVE JoinContents(_)
\* " ".join([msg.get("content", "") for msg in messages])
JoinContents(messages) ==
    IF messages = <<>> THEN ""
    ELSE IF Len(messages) = 1 THEN messages[1].content
    ELSE messages[1].content \o " " \o JoinContents(Tail(messages))

PromptText(messages) == JoinContents(messages)

\* an entry of the cache backend; by, messages and provider are history (the
\* request that stored it, what it asked and with which provider argument)
CacheEntry(key, value, by, messages) ==
    [key |-> key, value |-> value, by |-> by, messages |-> messages]

Miss == [hit |-> FALSE, entry |-> NoEntry]

\* _get_from_semantic_cache: semantic_cache.get(prompt_text); backend_ok is
\* whether the backend answers (an exception is caught and gives None)
GetFromSemanticCache(prompt_text, model, backend_ok) ==
    IF ~cache_enabled \/ ~backend_ok THEN Miss
    ELSE IF \E e \in cache_store : e.key = prompt_text
         THEN [hit |-> TRUE, entry |-> CHOOSE e \in cache_store : e.key = prompt_text]
         ELSE Miss

\* the cache write under a key that includes the model, which no lookup uses
StoreInSemanticCacheModelKey(prompt_text, model, response, backend_ok, by, messages) ==
    IF ~cache_enabled \/ ~backend_ok THEN cache_store
    ELSE {e \in cache_store : e.key # model \o ":" \o prompt_text}
         \cup {CacheEntry(model \o ":" \o prompt_text, response, by, messages)}

\* _store_in_semantic_cache: semantic_cache.put(prompt_text, response); the
\* backend keeps one entry per key (an exception is caught and stores nothing)
StoreInSemanticCache(prompt_text, model, response, backend_ok, by, messages) ==
    IF ~cache_enabled \/ ~backend_ok THEN cache_store
    ELSE {e \in cache_store : e.key # prompt_text}
         \cup {CacheEntry(prompt_text, response, by, messages)}

\* _call_provider: "if use_cache and not stream and self.semantic_cache"
ShouldLookup(args) == args.use_cache /\ ~args.stream /\ cache_enabled

\* the cache write made whatever use_cache says
ShouldStoreAlways(args) == cache_enabled

\* _handle_non_streaming_response: "if use_cache and self.semantic_cache"
ShouldStore(args) == args.use_cache /\ cache_enabled

\* the cost with a default rate taken where the descriptor's cost is zero
CalculateCostDefaultRate(provider_config, has_usage, usage) ==
    IF ~has_usage THEN 0
    ELSE usage.total_tokens * (IF provider_config.cost_per_1k_tokens = 0 THEN 30000
                               ELSE provider_config.cost_per_1k_tokens)

\* _calculate_cost
CalculateCost(provider_config, has_usage, usage) ==
    IF ~has_usage \/ provider_config.cost_per_1k_tokens = 0 THEN 0
    ELSE usage.total_tokens * provider_config.cost_per_1k_tokens

\* _calculate_cost_from_tokens
CalculateCostFromTokens(provider_config, tokens) ==
    IF provider_config.cost_per_1k_tokens = 0 THEN 0
    ELSE tokens * provider_config.cost_per_1k_tokens

\* the result dict with the model string written to the provider field
GatewayResultModelAsProvider(provider_config, reply) ==
    [content |-> reply.content,
     provider |-> provider_config.model,
     model |-> provider_config.model,
     usage |-> reply.usage,
     usage_keys |-> TRUE,
     cost |-> CalculateCost(provider_config, reply.has_usage, reply.usage)]

\* _handle_non_streaming_response: the result dict
GatewayResult(provider_config, reply) ==
    [content |-> reply.content,
     provider |-> provider_config.name,
     model |-> provider_config.model,
     usage |-> reply.usage,
     usage_keys |-> TRUE,
     cost |-> CalculateCost(provider_config, reply.has_usage, reply.usage)]

\* the exceptions generate_response raises
NoProvidersError ==
    [type |-> "ValueError", message |-> "No LLM providers available",
     entries |-> <<>>, last_error |-> ""]
GatewayAllFailedError(q) ==
    [type |-> "Exception", message |-> "All LLM providers failed",
     entries |-> <<>>, last_error |-> ""]

RECURSIVE NextAvailable(_, _)
\* the loop's "if not provider_config.is_available: continue": the first
\* position from i on whose provider is available, or Len(order) + 1
NextAvailable(order, i) ==
    IF i > Len(order) THEN i
    ELSE IF providers[order[i]].is_available THEN i
    ELSE NextAvailable(order, i + 1)

Raise(q, err) == [q EXCEPT !.pc = "done", !.outcome = "raised", !.error = err]

\* every remaining provider of the order called at once
StartCallSpeculative(calls, order, j) == calls \o SubSeq(order, j, Len(order))

\* the loop's one call per iteration, "await self._call_provider(...)"
\* (LLMManager: "await provider.generate_response(...)"): the provider at the
\* position of the loop is called, and the loop goes on when the call has ended
StartCall(calls, order, j) == Append(calls, order[j])

\* generate_response from position i of the loop up to the next suspension
\* point or return: the cache lookup of _call_provider, then the generator
\* (stream) or the vendor call
GatewayTryFrom(q, i, backend_ok) ==
    LET j == NextAvailable(q.order, i) IN
    IF j > Len(q.order) THEN Raise([q EXCEPT !.idx = j], GatewayAllFailedError(q))
    ELSE
      LET name == q.order[j]
          cfg == providers[name]
          look == ShouldLookup(q.args)
          got == GetFromSemanticCache(PromptText(q.args.messages), cfg.model, backend_ok)
          q1 == [q EXCEPT !.idx = j,
                          !.lookups = IF ~look THEN @
                                      ELSE Append(@, IF got.hit THEN "hit"
                                                     ELSE IF backend_ok THEN "miss"
                                                     ELSE "error")]
      IN IF look /\ got.hit
         THEN [q1 EXCEPT !.pc = "done", !.outcome = "cached", !.result = got.entry.value,
                         !.hit = got.entry]
         ELSE IF q.args.stream
         THEN [q1 EXCEPT !.pc = "stream", !.outcome = "stream", !.gen = "created"]
         ELSE [q1 EXCEPT !.pc = "awaiting", !.calls = StartCall(@, q.order, j)]

\* generate_response from its first line
GatewayGenerateResponse(q, args, backend_ok) ==
    LET q0 == [q EXCEPT !.args = args,
                        !.order = ProviderOrder(args.provider),
                        !.after = {o \in Reqs : Returned(req[o])}]
    IN IF q0.order = <<>> THEN Raise(q0, NoProvidersError)
       ELSE GatewayTryFrom(q0, 1, backend_ok)

\* an except branch that tries the provider that failed again
GatewayOnFailureRetries(q, detail, backend_ok) ==
    GatewayTryFrom(q, q.idx, backend_ok)

\* the except branch of the loop: log, continue
GatewayOnFailure(q, detail, backend_ok) ==
    GatewayTryFrom(q, q.idx + 1, backend_ok)

\* the reply handler without the try/except around the cache write: a failed
\* write reaches the except branch of the loop
GatewayOnReplyStoreRaises(q, reply, backend_ok) ==
    IF ~reply.has_usage
    THEN GatewayOnFailure(q, "AttributeError", backend_ok)
    ELSE IF ShouldStore(q.args) /\ ~backend_ok
    THEN GatewayOnFailure([q EXCEPT !.store = "error"], "cache", TRUE)
    ELSE [q EXCEPT
            !.pc = "done", !.outcome = "response",
            !.result = GatewayResult(providers[q.order[q.idx]], reply),
            !.store = IF ShouldStore(q.args) THEN "stored" ELSE "none"]

\* _handle_non_streaming_response after acompletion returned: a response
\* without a usage record makes usage.prompt_tokens raise AttributeError
GatewayOnReply(q, reply, backend_ok) ==
    IF ~reply.has_usage
    THEN GatewayOnFailure(q, "AttributeError", backend_ok)
    ELSE [q EXCEPT
            !.pc = "done", !.outcome = "response",
            !.result = GatewayResult(providers[q.order[q.idx]], reply),
            !.store = IF ShouldStore(q.args)
                      THEN (IF backend_ok THEN "stored" ELSE "error")
                      ELSE "none"]

\* the cache after the step GatewayOnReply
GatewayCacheAfterReply(q, r, reply, backend_ok) ==
    IF reply.has_usage /\ ShouldStore(q.args)
    THEN StoreInSemanticCache(PromptText(q.args.messages), providers[q.order[q.idx]].model,
                              GatewayResult(providers[q.order[q.idx]], reply),
                              backend_ok, r, q.args.messages)
    ELSE cache_store

Free(r) == loop_owner \in {0, r}

\* history: what the vendor answered to the call that just ended
Answered(q, reply) ==
    [q EXCEPT !.vendor = IF ~reply.ok THEN [status |-> "raised", content |-> ""]
                         ELSE IF ~reply.has_usage THEN [status |-> "no_usage", content |-> ""]
                         ELSE [status |-> "ok", content |-> reply.content]]
Raised == [ok |-> FALSE, content |-> "", has_usage |-> FALSE, usage |-> NoUsage, detail |-> ""]

\* a circuit breaker: the provider that failed is marked unavailable
RegistryMarksUnavailable(provs, k) == [provs EXCEPT ![k].is_available = FALSE]

\* what the except branch of the loop does to self.providers: it logs the
\* failure and continues, the registry is not written
RegistryAfterFailure(provs, k) == provs

static == <<component, settings, providers, fallback_order, cache_enabled, ollama_up,
           loop_owner, cheapest>>

\* a caller calls generate_response
GBegin(r) ==
    /\ component = "gateway" /\ Free(r)
    /\ req[r].pc = "idle"
    /\ \E args \in ArgChoices, backend_ok \in BOOLEAN :
         req' = [req EXCEPT ![r] = GatewayGenerateResponse(req[r], args, backend_ok)]
    /\ UNCHANGED <<static, cache_store>>

\* await acompletion(**params) returns
GProviderReturns(r) ==
    /\ component = "gateway" /\ Free(r)
    /\ req[r].pc = "awaiting"
    /\ \E reply \in OkReplies, backend_ok \in BOOLEAN :
         /\ req' = [req EXCEPT ![r] = Answered(GatewayOnReply(req[r], reply, backend_ok),
                                                 reply)]
         /\ cache_store' = GatewayCacheAfterReply(req[r], r, reply, backend_ok)
    /\ UNCHANGED static

\* await acompletion(**params) raises
GProviderRaises(r) ==
    /\ component = "gateway" /\ Free(r)
    /\ req[r].pc = "awaiting"
    /\ \E detail \in ErrorDetails, backend_ok \in BOOLEAN :
         req' = [req EXCEPT ![r] = Answered(GatewayOnFailure(req[r], detail, backend_ok),
                                            Raised)]
    /\ providers' = RegistryAfterFailure(providers, req[r].order[req[r].idx])
    /\ UNCHANGED <<component, settings, fallback_order, cache_enabled, ollama_up,
                   loop_owner, cheapest, cache_store>>

\* ------------------------------------------- LLMGateway: the event stream
\* the events _handle_streaming_response yields
ChunkEvent(provider_config, content_chunk) ==
    [type |-> "chunk", content |-> content_chunk, provider |-> provider_config.name,
     model |-> provider_config.model]

\* the final event with the token estimate rounded up
FinalEventRoundedUp(provider_config, full_content) ==
    [type |-> "final", full_content |-> full_content, provider |-> provider_config.name,
     model |-> provider_config.model,
     estimated_tokens |-> (Len(full_content) + 3) \div 4,
     estimated_cost |-> CalculateCostFromTokens(provider_config,
                                                (Len(full_content) + 3) \div 4),
     duration_seconds |-> "end_time - start_time"]

\* the final event: estimated_tokens = len(full_content) // 4; the duration is
\* a difference of two clock readings, kept as a symbol
FinalEvent(provider_config, full_content) ==
    [type |-> "final", full_content |-> full_content, provider |-> provider_config.name,
     model |-> provider_config.model,
     estimated_tokens |-> Len(full_content) \div 4,
     estimated_cost |-> CalculateCostFromTokens(provider_config, Len(full_content) \div 4),
     duration_seconds |-> "end_time - start_time"]

\* an error event that carries the message alone
ErrorEventUnnamed(provider_config, detail) ==
    [type |-> "error", error |-> detail, provider |-> ""]

\* the event of the except branch: {"type": "error", "error": str(e),
\* "provider": provider_config.name}
ErrorEvent(provider_config, detail) ==
    [type |-> "error", error |-> detail, provider |-> provider_config.name]

StreamConfig(q) == providers[q.order[q.idx]]

\* the accumulator overwritten by the fragment
AccumulateLatest(full_content, content_chunk) == content_chunk

\* full_content += content_chunk
Accumulate(full_content, content_chunk) == full_content \o content_chunk

\* a producer that runs ahead of its consumer: it reads the vendor's stream
\* also while the generator is suspended at a yield
ReadingDetached(q) == q.gen \in {"open", "yielded"}

\* the generator reads the vendor's stream only while it runs, that is while
\* the consumer awaits its next event: "async for chunk in await acompletion"
Reading(q) == q.gen = "open"

\* an except branch inside the loop: the error event, then the next fragment
StreamExceptResumes(q, detail) ==
    [q EXCEPT !.gen = "yielded",
              !.events = Append(@, ErrorEvent(StreamConfig(q), detail))]

\* an except branch that goes on to the next provider of the order
StreamExceptFallsBack(q, detail) ==
    IF q.idx < Len(q.order)
    THEN [q EXCEPT !.gen = "opening", !.idx = @ + 1,
                   !.calls = Append(@, q.order[q.idx + 1])]
    ELSE [q EXCEPT !.gen = "error",
                   !.events = Append(@, ErrorEvent(StreamConfig(q), detail))]

\* the except branch of _handle_streaming_response: the error event is the
\* last thing the generator yields
StreamExcept(q, detail) ==
    [q EXCEPT !.gen = "error",
              !.events = Append(@, ErrorEvent(StreamConfig(q), detail))]

\* the consumer asks for the first event: the generator runs to
\* "await acompletion(**params)"
GStreamStart(r) ==
    /\ component = "gateway" /\ Free(r)
    /\ req[r].pc = "stream" /\ req[r].gen = "created" /\ ~req[r].stopped
    /\ req' = [req EXCEPT ![r].gen = "opening",
                          ![r].calls = Append(@, req[r].order[req[r].idx])]
    /\ UNCHANGED <<static, cache_store>>

\* acompletion returns the vendor's stream
GStreamOpened(r) ==
    /\ component = "gateway" /\ Free(r)
    /\ req[r].pc = "stream" /\ req[r].gen = "opening"
    /\ req' = [req EXCEPT ![r].gen = "open"]
    /\ UNCHANGED <<static, cache_store>>

\* acompletion raises: the except branch yields the error event
GStreamOpenRaises(r) ==
    /\ component = "gateway" /\ Free(r)
    /\ req[r].pc = "stream" /\ req[r].gen = "opening"
    /\ \E detail \in ErrorDetails :
         req' = [req EXCEPT ![r] = StreamExcept(req[r], detail)]
    /\ UNCHANGED <<static, cache_store>>

\* the vendor's stream delivers a fragment; one with content is yielded and
\* the generator is suspended at the yield, one without is skipped
GStreamChunk(r) ==
    /\ component = "gateway" /\ Free(r)
    /\ req[r].pc = "stream" /\ Reading(req[r])
    /\ req[r].reads < MaxChunks
    /\ \E content_chunk \in ChunkChoices :
         req' = [req EXCEPT
                   ![r].reads = @ + 1,
                   ![r].gen = IF content_chunk # "" THEN "yielded" ELSE @,
                   ![r].full_content = IF content_chunk # ""
                                       THEN Accumulate(@, content_chunk) ELSE @,
                   ![r].events = IF content_chunk # ""
                                 THEN Append(@, ChunkEvent(StreamConfig(req[r]), content_chunk))
                                 ELSE @]
    /\ UNCHANGED <<static, cache_store>>

\* the consumer asks for the next event: the generator resumes after the yield
GStreamNext(r) ==
    /\ component = "gateway" /\ Free(r)
    /\ req[r].pc = "stream" /\ req[r].gen = "yielded" /\ ~req[r].stopped
    /\ req' = [req EXCEPT ![r].gen = "open"]
    /\ UNCHANGED <<static, cache_store>>

\* the consumer stops iterating before the terminal event (it leaves its loop
\* at an event, or never starts)
GStreamStop(r) ==
    /\ component = "gateway" /\ Free(r)
    /\ req[r].pc = "stream" /\ req[r].gen \in {"created", "yielded"} /\ ~req[r].stopped
    /\ req' = [req EXCEPT ![r].stopped = TRUE]
    /\ UNCHANGED <<static, cache_store>>

\* the vendor's stream ends: the final event
GStreamEnd(r) ==
    /\ component = "gateway" /\ Free(r)
    /\ req[r].pc = "stream" /\ Reading(req[r])
    /\ req' = [req EXCEPT ![r].gen = "final",
                          ![r].events = Append(@, FinalEvent(StreamConfig(req[r]),
                                                             req[r].full_content))]
    /\ UNCHANGED <<static, cache_store>>

\* the vendor's stream raises partway: the error event
GStreamRaises(r) ==
    /\ component = "gateway" /\ Free(r)
    /\ req[r].pc = "stream" /\ Reading(req[r])
    /\ \E detail \in ErrorDetails :
         req' = [req EXCEPT ![r] = StreamExcept(req[r], detail)]
    /\ UNCHANGED <<static, cache_store>>

\* the consumer asks for an event after the final or error event: the
\* generator returns
GStreamClose(r) ==
    /\ component = "gateway" /\ Free(r)
    /\ req[r].pc = "stream" /\ req[r].gen \in {"final", "error"}
    /\ req' = [req EXCEPT ![r].gen = "closed"]
    /\ UNCHANGED <<static, cache_store>>

\* ------------------------------------------------ LLMManager: construction
\* the environment variables the providers' constructors read; an environment
\* is the set of the variables that are set to a non-empty string
EnvVars == {"AZURE_OPENAI_ENDPOINT", "AZURE_OPENAI_API_KEY", "GOOGLE_GEMINI_API_KEY",
            "OPENROUTER_API_KEY", "GROQ_API_KEY"}

\* the environments the main specification starts from
EnvChoices ==
    { {},
      {"GOOGLE_GEMINI_API_KEY", "GROQ_API_KEY"},
      {"AZURE_OPENAI_API_KEY", "OPENROUTER_API_KEY"},
      {"AZURE_OPENAI_ENDPOINT", "AZURE_OPENAI_API_KEY", "GROQ_API_KEY"} }

\* LLMManager.__init__: the keys of self.providers
ManagerKeys == {"azure_openai", "google_gemini", "openrouter", "groq", "ollama"}

\* the providers' constructors, is_available (what does not depend on a
\* probe) and get_cost_per_token, in 1e-8 dollar per token, with the default
\* model names
ManagerDescriptor(k, env) ==
    CASE k = "azure_openai" ->
           [name |-> k, model |-> "gpt-4", input |-> 3000, output |-> 6000,
            is_available |-> "AZURE_OPENAI_ENDPOINT" \in env /\ "AZURE_OPENAI_API_KEY" \in env]
      [] k = "google_gemini" ->
           [name |-> k, model |-> "gemini-2.0-flash-exp", input |-> 0, output |-> 0,
            is_available |-> "GOOGLE_GEMINI_API_KEY" \in env]
      [] k = "openrouter" ->
           [name |-> k, model |-> "anthropic/claude-3-haiku:beta",
            input |-> 25000, output |-> 125000,
            is_available |-> "OPENROUTER_API_KEY" \in env]
      [] k = "groq" ->
           [name |-> k, model |-> "llama-3.1-8b-instant", input |-> 18, output |-> 18,
            is_available |-> "GROQ_API_KEY" \in env]
      [] k = "ollama" ->
           [name |-> k, model |-> "llama3.1:8b", input |-> 0, output |-> 0,
            is_available |-> FALSE]

ManagerProviders(env) == [k \in ManagerKeys |-> ManagerDescriptor(k, env)]

\* provider.is_available(): OllamaProvider probes its server on every call
IsAvailable(provs, k, probe) ==
    IF k = "ollama" THEN probe ELSE provs[k].is_available

\* _determine_fallback_order
priority_order == <<"google_gemini", "ollama", "openrouter", "groq", "azure_openai">>
DetermineFallbackOrder(provs, probe) ==
    SelectSeqBy(priority_order, {k \in DOMAIN provs : IsAvailable(provs, k, probe)})

\* ------------------------------------------------- LLMManager: the router
\* "providers_to_try = [preferred_provider] if preferred_provider else []"
\* and "providers_to_try.extend(self.fallback_order)"
ProvidersToTry(preferred_provider) ==
    (IF preferred_provider # None THEN <<preferred_provider>> ELSE <<>>) \o fallback_order

RECURSIVE ManagerNextAvailable(_, _)
\* the loop's two "continue" tests
ManagerNextAvailable(order, i) ==
    IF i > Len(order) THEN i
    ELSE IF order[i] \in DOMAIN providers /\ IsAvailable(providers, order[i], ollama_up)
         THEN i
    ELSE ManagerNextAvailable(order, i + 1)

\* "raise Exception(f'All LLM providers failed. Last error: {last_error}')"
ManagerAllFailedError(q) ==
    [type |-> "Exception", message |-> "All LLM providers failed. Last error",
     entries |-> <<>>, last_error |-> q.last_error]

\* the loop from position i up to the next vendor call or the raise
ManagerTryFrom(q, i) ==
    LET j == ManagerNextAvailable(q.order, i) IN
    IF j > Len(q.order) THEN Raise([q EXCEPT !.idx = j], ManagerAllFailedError(q))
    ELSE [q EXCEPT !.idx = j, !.pc = "awaiting", !.calls = StartCall(@, q.order, j)]

ManagerGenerateResponse(q, args) ==
    ManagerTryFrom([q EXCEPT !.args = args,
                             !.order = ProvidersToTry(args.provider),
                             !.after = {o \in Reqs : Returned(req[o])}], 1)

\* the except branch of the loop
ManagerOnFailure(q, detail) ==
    ManagerTryFrom([q EXCEPT !.last_error = detail], q.idx + 1)

\* the LLMResponse a provider's generate_response builds from the vendor's
\* answer; a missing usage count reads as 0, and GoogleGeminiProvider leaves
\* usage empty without usageMetadata; OllamaProvider adds the two counts up
ManagerResult(cfg, reply) ==
    [content |-> reply.content,
     provider |-> cfg.name,
     model |-> cfg.model,
     usage |-> IF cfg.name = "ollama"
               THEN Usage(reply.usage.prompt_tokens, reply.usage.completion_tokens)
               ELSE reply.usage,
     usage_keys |-> (cfg.name # "google_gemini" \/ reply.has_usage),
     cost |-> reply.usage.prompt_tokens * cfg.input
              + reply.usage.completion_tokens * cfg.output]

ManagerOnReply(q, reply) ==
    [q EXCEPT !.pc = "done", !.outcome = "response",
              !.result = ManagerResult(providers[q.order[q.idx]], reply)]

\* AzureOpenAIProvider calls the synchronous client: the event loop runs
\* nothing else until the call ends
HoldsLoop(q) == q.pc = "awaiting" /\ q.order[q.idx] = "azure_openai"

ManagerArgChoices ==
    {Args(<<Message("user", "a")>>, p, FALSE, FALSE) :
        p \in {None, "groq", "azure_openai", "bogus"}}

mstatic == <<component, settings, providers, fallback_order, cache_enabled, cache_store,
            ollama_up, cheapest>>

MBegin(r) ==
    /\ component = "manager" /\ Free(r)
    /\ req[r].pc = "idle"
    /\ \E args \in ManagerArgChoices :
         /\ req' = [req EXCEPT ![r] = ManagerGenerateResponse(req[r], args)]
         /\ loop_owner' = IF HoldsLoop(req'[r]) THEN r ELSE 0
    /\ UNCHANGED mstatic

\* the provider's generate_response returns
MProviderReturns(r) ==
    /\ component = "manager" /\ Free(r)
    /\ req[r].pc = "awaiting"
    /\ \E reply \in ManagerReplies :
         req' = [req EXCEPT ![r] = Answered(ManagerOnReply(req[r], reply),
                                            [reply EXCEPT !.has_usage = TRUE])]
    /\ loop_owner' = 0
    /\ UNCHANGED mstatic

\* the provider's generate_response raises
MProviderRaises(r) ==
    /\ component = "manager" /\ Free(r)
    /\ req[r].pc = "awaiting"
    /\ \E detail \in ErrorDetails :
         req' = [req EXCEPT ![r] = Answered(ManagerOnFailure(req[r], detail), Raised)]
    /\ loop_owner' = IF HoldsLoop(req'[r]) THEN r ELSE 0
    /\ providers' = RegistryAfterFailure(providers, req[r].order[req[r].idx])
    /\ UNCHANGED <<component, settings, fallback_order, cache_enabled, cache_store,
                   ollama_up, cheapest>>

\* the Ollama server comes up or goes down
OllamaProbeChanges ==
    /\ component = "manager"
    /\ ollama_up' = ~ollama_up
    /\ UNCHANGED <<component, settings, providers, fallback_order, cache_enabled,
                   cache_store, loop_owner, cheapest, req>>

ManagerInit ==
    /\ component = "manager"
    /\ ollama_up \in BOOLEAN
    /\ \E env \in EnvChoices :
         /\ settings = env
         /\ providers = ManagerProviders(env)
         /\ fallback_order = DetermineFallbackOrder(ManagerProviders(env), ollama_up)
    /\ cache_enabled = FALSE
    /\ cache_store = {}
    /\ loop_owner = 0
    /\ cheapest = Unasked
    /\ req = [r \in Reqs |-> IdleRequest]

GatewayInit ==
    /\ component = "gateway"
    /\ \E s \in SettingsChoices :
         /\ settings = s
         /\ providers = GatewayProviders(s)
         /\ fallback_order = GatewayFallbackOrder(s)
    /\ cache_enabled \in BOOLEAN
    /\ cache_store = {}
    /\ ollama_up = FALSE
    /\ loop_owner = 0
    /\ cheapest = Unasked
    /\ req = [r \in Reqs |-> IdleRequest]

Init == GatewayInit \/ ManagerInit

\* a step of a request's coroutine, or of the consumer of its stream
RequestStep ==
    \E r \in Reqs :
        \/ GBegin(r)
        \/ GProviderReturns(r)
        \/ GProviderRaises(r)
        \/ GStreamStart(r)
        \/ GStreamOpened(r)
        \/ GStreamOpenRaises(r)
        \/ GStreamChunk(r)
        \/ GStreamNext(r)
        \/ GStreamStop(r)
        \/ GStreamEnd(r)
        \/ GStreamRaises(r)
        \/ GStreamClose(r)
        \/ MBegin(r)
        \/ MProviderReturns(r)
        \/ MProviderRaises(r)

Next == RequestStep \/ OllamaProbeChanges

Spec == Init /\ [][Next]_vars

\* the runs in which the configuration stays as it was at construction
FixedSpec == Init /\ [][RequestStep]_vars

\* ------------------------------------ LLMGateway under every configuration
\* the keys _init_providers can register
GatewayKeys == {"gemini", "openai", "azure_openai", "openrouter_cheap", "openrouter_premium"}

\* the calls made of a gateway of any configuration: every key named as the
\* preferred provider, or none
CredentialArgChoices ==
    {Args(<<Message("user", "a")>>, p, st, FALSE) :
        p \in GatewayKeys \cup {None}, st \in BOOLEAN}

\* LLMGateway.__init__ with every combination of the settings fields
CredentialInit ==
    /\ component = "gateway"
    /\ settings \in SUBSET SettingsFields
    /\ providers = GatewayProviders(settings)
    /\ fallback_order = GatewayFallbackOrder(settings)
    /\ cache_enabled = FALSE
    /\ cache_store = {}
    /\ ollama_up = FALSE
    /\ loop_owner = 0
    /\ cheapest = Unasked
    /\ req = [r \in Reqs |-> IdleRequest]

\* a caller calls generate_response of such a gateway
GBeginCredential(r) ==
    /\ component = "gateway" /\ Free(r)
    /\ req[r].pc = "idle"
    /\ \E args \in CredentialArgChoices, backend_ok \in BOOLEAN :
         req' = [req EXCEPT ![r] = GatewayGenerateResponse(req[r], args, backend_ok)]
    /\ UNCHANGED <<static, cache_store>>

\* one caller at a time
CredentialNext ==
    \/ GBeginCredential(1)
    \/ GProviderReturns(1)
    \/ GProviderRaises(1)
    \/ GStreamStart(1)
    \/ GStreamOpened(1)
    \/ GStreamOpenRaises(1)
    \/ GStreamChunk(1)
    \/ GStreamNext(1)
    \/ GStreamStop(1)
    \/ GStreamEnd(1)
    \/ GStreamRaises(1)
    \/ GStreamClose(1)

CredentialSpec == CredentialInit /\ [][CredentialNext]_vars

\* --------------------------------------------------- get_cheapest_provider
\* the keys of LLMGateway.providers in the order of self.providers.items(): a
\* dict keeps the order in which _init_providers inserted them
GatewayProviderItems(provs) ==
    SelectSeqBy(<<"gemini", "openai", "azure_openai", "openrouter_cheap",
                  "openrouter_premium">>, DOMAIN provs)

RECURSIVE InsertByCost(_, _, _)
\* k put into a list sorted by cost, behind the items that cost no more
InsertByCost(provs, k, sorted) ==
    IF sorted = <<>> THEN <<k>>
    ELSE IF provs[Head(sorted)].cost_per_1k_tokens <= provs[k].cost_per_1k_tokens
         THEN <<Head(sorted)>> \o InsertByCost(provs, k, Tail(sorted))
         ELSE <<k>> \o sorted

RECURSIVE SortByCost(_, _)
\* list.sort(key=lambda x: x[1].cost_per_1k_tokens): a stable sort
SortByCost(provs, items) ==
    IF items = <<>> THEN <<>>
    ELSE InsertByCost(provs, items[Len(items)],
                      SortByCost(provs, SubSeq(items, 1, Len(items) - 1)))

\* the first available provider, whatever it costs
GatewayGetCheapestProviderFirst(provs) ==
    LET available_providers ==
            SelectSeqBy(GatewayProviderItems(provs),
                        {k \in DOMAIN provs : provs[k].is_available})
    IN IF available_providers = <<>> THEN None ELSE available_providers[1]

\* LLMGateway.get_cheapest_provider
GatewayGetCheapestProvider(provs) ==
    LET available_providers ==
            SelectSeqBy(GatewayProviderItems(provs),
                        {k \in DOMAIN provs : provs[k].is_available})
    IN IF available_providers = <<>> THEN None
       ELSE SortByCost(provs, available_providers)[1]

\* the keys of LLMManager.providers in the order of the dict literal
ManagerProviderItems == <<"azure_openai", "google_gemini", "openrouter", "groq", "ollama">>

\* LLMManager.get_available_providers: the names, in the order of the dict
ManagerGetAvailableProviders(provs, probe) ==
    SelectSeqBy(ManagerProviderItems, {k \in DOMAIN provs : IsAvailable(provs, k, probe)})

\* LLMManager.get_cheapest_provider: the first free provider, or else
\* min(available, key = cost_per_1k_input + cost_per_1k_output), which is the
\* first of the providers with the least sum
ManagerGetCheapestProvider(provs, probe) ==
    LET available == ManagerGetAvailableProviders(provs, probe)
        free_providers ==
            SelectSeqBy(available, {k \in DOMAIN provs :
                                       provs[k].input = 0 /\ provs[k].output = 0})
        sum(k) == provs[k].input + provs[k].output
    IN IF available = <<>> THEN None
       ELSE IF free_providers # <<>> THEN free_providers[1]
       ELSE available[CHOOSE i \in 1..Len(available) :
                         /\ \A j \in 1..Len(available) : sum(available[i]) <= sum(available[j])
                         /\ \A j \in 1..(i - 1) : sum(available[j]) > sum(available[i])]

\* a caller asks the gateway for its cheapest provider
GGetCheapestProvider ==
    /\ component = "gateway" /\ loop_owner = 0
    /\ cheapest' = GatewayGetCheapestProvider(providers)
    /\ UNCHANGED <<component, settings, providers, fallback_order, cache_enabled,
                   cache_store, ollama_up, loop_owner, req>>

\* a caller asks the manager for its cheapest provider; the Ollama server is
\* probed during the call
MGetCheapestProvider ==
    /\ component = "manager" /\ loop_owner = 0
    /\ cheapest' = ManagerGetCheapestProvider(providers, ollama_up)
    /\ UNCHANGED <<component, settings, providers, fallback_order, cache_enabled,
                   cache_store, ollama_up, loop_owner, req>>

\* ----------------------------------- both routers under every configuration
\* LLMManager.__init__ with every combination of the environment variables
EnvironmentInit ==
    /\ component = "manager"
    /\ ollama_up \in BOOLEAN
    /\ settings \in SUBSET EnvVars
    /\ providers = ManagerProviders(settings)
    /\ fallback_order = DetermineFallbackOrder(ManagerProviders(settings), ollama_up)
    /\ cache_enabled = FALSE
    /\ cache_store = {}
    /\ loop_owner = 0
    /\ cheapest = Unasked
    /\ req = [r \in Reqs |-> IdleRequest]

ConfigurationInit == CredentialInit \/ EnvironmentInit

\* one caller at a time, who makes a request or asks for the cheapest provider
ConfigurationNext ==
    \/ CredentialNext
    \/ GGetCheapestProvider
    \/ MBegin(1)
    \/ MProviderReturns(1)
    \/ MProviderRaises(1)
    \/ OllamaProbeChanges
    \/ MGetCheapestProvider

ConfigurationSpec == ConfigurationInit /\ [][ConfigurationNext]_vars

\* ======================================================== properties
Begun(r) == req[r].pc # "idle"
Last(s) == s[Len(s)]
IsPrefix(s, t) == Len(s) <= Len(t) /\ \A i \in 1..Len(s) : s[i] = t[i]

\* the providers of the configured fallback order that are available now
AvailableNow(k) ==
    IF component = "manager" THEN IsAvailable(providers, k, ollama_up)
    ELSE providers[k].is_available
AvailableOrder == SelectSeqBy(fallback_order, {k \in DOMAIN providers : AvailableNow(k)})

\* C1: when a provider has failed and the next provider called answers with a
\* complete response, the request returns a response built from that answer,
\* whose provider field names the provider that answered, and raises nothing.
C1_Fallthrough ==
    \A r \in Reqs :
        (/\ req[r].pc = "done"
         /\ Len(req[r].calls) >= 2
         /\ req[r].vendor.status = "ok")
        => /\ req[r].outcome = "response"
           /\ req[r].error = NoError
           /\ req[r].result.provider = providers[Last(req[r].calls)].name
           /\ req[r].result.content = req[r].vendor.content

C1_Witness ==
    \E r \in Reqs :
        /\ component = "gateway"
        /\ req[r].calls = <<"gemini", "openai">>
        /\ req[r].vendor.status = "ok"
        /\ req[r].outcome = "response"
        /\ req[r].result.provider = "OpenAI GPT-4"

\* C2: with the configuration fixed, a request without a preferred provider
\* has called a prefix of the available providers of the fallback order, in
\* that order, and has called all of them when it raises: no unavailable
\* provider is called, none is called out of order, and an available one is
\* left out only when the request returned before reaching it.
C2_FallbackOrder ==
    \A r \in Reqs :
        (Begun(r) /\ req[r].args.provider = None)
        => /\ IsPrefix(req[r].calls, AvailableOrder)
           /\ req[r].outcome = "raised" => req[r].calls = AvailableOrder

C2_Witness ==
    \E r \in Reqs :
        /\ component = "manager"
        /\ req[r].args.provider = None
        /\ ~providers["openrouter"].is_available
        /\ req[r].calls = <<"google_gemini", "groq">>
        /\ req[r].outcome = "raised"

\* C3 (as specified): a request of LLMGateway that names a registered provider
\* calls it first, then the other available providers in fallback order, and
\* raises only when every available provider has been called.
OrderWithout(k) == SelectSeqBy(AvailableOrder, Range(AvailableOrder) \ {k})
C3_PreferredThenFallback ==
    \A r \in Reqs :
        (/\ component = "gateway" /\ Begun(r) /\ ~req[r].args.stream
         /\ req[r].args.provider \in DOMAIN providers)
        => /\ req[r].calls # <<>> => req[r].calls[1] = req[r].args.provider
           /\ IsPrefix(Tail(req[r].calls), OrderWithout(req[r].args.provider))
           /\ req[r].outcome = "raised"
                => Range(AvailableOrder) \subseteq Range(req[r].calls)

\* C4 (as specified): the error raised when every called provider failed carries
\* one (provider, detail) entry per call, in call order, each detail non-empty.
C4_AggregateEntries ==
    \A r \in Reqs :
        (req[r].outcome = "raised" /\ req[r].error.type = "Exception")
        => /\ Len(req[r].error.entries) = Len(req[r].calls)
           /\ \A i \in 1..Len(req[r].calls) :
                /\ req[r].error.entries[i].provider = req[r].calls[i]
                /\ req[r].error.entries[i].detail # ""

\* C5 (as specified): LLMGateway.generate_response raises nothing but the
\* aggregate failure, and raises it only when every available provider has
\* been called.
C5_OnlyAggregateFailure ==
    \A r \in Reqs :
        (component = "gateway" /\ req[r].outcome = "raised")
        => /\ req[r].error.message = "All LLM providers failed"
           /\ Range(AvailableOrder) \subseteq Range(req[r].calls)

\* C6 (as specified): a request that returns a response taken from the cache has
\* called no provider.
C6_CacheHitNoProviderCall ==
    \A r \in Reqs : req[r].outcome = "cached" => req[r].calls = <<>>

\* two calls with identical arguments, cached and not streaming, the second
\* begun after the first returned a provider's response
Contents(messages) == [i \in 1..Len(messages) |-> messages[i].content]
Repeats(r1, r2) ==
    /\ r1 # r2
    /\ req[r1].pc = "done" /\ req[r2].pc = "done"
    /\ req[r1].args = req[r2].args
    /\ req[r1].args.use_cache /\ ~req[r1].args.stream
    /\ r1 \in req[r2].after
    /\ req[r1].outcome = "response"

\* C7 (as specified): two such calls make exactly one provider call in total and
\* return the same content.
C7_CacheIdempotence ==
    \A r1, r2 \in Reqs :
        Repeats(r1, r2)
        => /\ Len(req[r1].calls) + Len(req[r2].calls) = 1
           /\ req[r2].result.content = req[r1].result.content

\* C7 (amended): when the cache is enabled, the first call's cache write
\* succeeded and the second call's first lookup did not fail, the second call
\* calls no provider and returns the cached entry; the content is that of the
\* first call when the entry is still the one the first call stored.
C7_CacheIdempotenceWhenCacheWorks ==
    \A r1, r2 \in Reqs :
        (/\ Repeats(r1, r2)
         /\ cache_enabled
         /\ req[r1].store = "stored"
         /\ req[r2].lookups # <<>> /\ req[r2].lookups[1] # "error")
        => /\ req[r2].calls = <<>>
           /\ req[r2].outcome = "cached"
           /\ req[r2].hit.by = r1 => req[r2].result = req[r1].result

C7_Witness ==
    \E r1, r2 \in Reqs :
        /\ Repeats(r1, r2)
        /\ req[r1].store = "stored"
        /\ Len(req[r1].calls) = 1
        /\ req[r2].lookups = <<"hit">>
        /\ req[r2].hit.by = r1
        /\ req[r2].result.content = "y"

\* C8 (as specified): a response returned from the cache was stored by a request
\* with the same message contents, in order, and for the model the lookup is
\* made for.
C8_NoFalsePositive ==
    \A r \in Reqs :
        req[r].outcome = "cached"
        => /\ Contents(req[r].hit.messages) = Contents(req[r].args.messages)
           /\ req[r].hit.value.model = providers[req[r].order[req[r].idx]].model

\* C9: the cache changes only in the step in which a non-streaming request
\* with use_cache true returns the response of the provider it awaited, and
\* then by that request's entry alone.
C9_CacheWritesOnlyOnSuccess ==
    [][cache_store' # cache_store
       => \E r \in Reqs :
            /\ req[r].pc = "awaiting"
            /\ ~req[r].args.stream /\ req[r].args.use_cache
            /\ req'[r].pc = "done" /\ req'[r].outcome = "response"
            /\ cache_store' =
                 {e \in cache_store : e.key # PromptText(req[r].args.messages)}
                 \cup {CacheEntry(PromptText(req[r].args.messages), req'[r].result, r,
                                  req[r].args.messages)}]_vars

C9_Witness ==
    \E r1, r2 \in Reqs :
        /\ req[r1].args.stream /\ req[r1].args.use_cache /\ req[r1].gen = "closed"
        /\ req[r2].store = "stored"
        /\ Cardinality(cache_store) = 1
        /\ \A e \in cache_store : e.by = r2

\* C10: in a non-streaming request of LLMGateway a failed cache lookup is
\* followed by the call of the provider the lookup was made for, as a miss is;
\* when the vendor answers a request whose lookup or cache write failed, or
\* that has no cache, the request returns that response; and whatever the
\* request raises is one of the two errors of generate_response.
C10_CacheOutageIsMiss ==
    \A r \in Reqs :
        (component = "gateway" /\ Begun(r) /\ ~req[r].args.stream)
        => /\ \A i \in 1..Len(req[r].lookups) :
                req[r].lookups[i] = "error" => Len(req[r].calls) >= i
           /\ (/\ req[r].pc = "done" /\ req[r].vendor.status = "ok"
               /\ \/ req[r].store = "error"
                  \/ \E i \in 1..Len(req[r].lookups) : req[r].lookups[i] = "error"
                  \/ ~cache_enabled)
              => /\ req[r].outcome = "response"
                 /\ req[r].result.content = req[r].vendor.content
           /\ req[r].store = "error" => req[r].outcome = "response"
           /\ req[r].outcome = "raised"
                => req[r].error \in {NoProvidersError, GatewayAllFailedError(req[r])}

C10_Witness ==
    \E r \in Reqs :
        /\ req[r].lookups = <<"error">>
        /\ req[r].store = "error"
        /\ req[r].outcome = "response"
        /\ req[r].calls = <<"gemini">>

\* the contents of the chunk events of a sequence of events, concatenated in
\* the order of the events
RECURSIVE ConcatChunks(_)
ConcatChunks(events) ==
    IF events = <<>> THEN ""
    ELSE (IF Head(events).type = "chunk" THEN Head(events).content ELSE "")
         \o ConcatChunks(Tail(events))

\* C11: in every stream of LLMGateway, the full_content of a final event is
\* the concatenation, in emission order, of the contents of the chunk events
\* emitted before it.
C11_StreamingConcatenation ==
    \A r \in Reqs :
        \A i \in 1..Len(req[r].events) :
            req[r].events[i].type = "final"
            => req[r].events[i].full_content = ConcatChunks(SubSeq(req[r].events, 1, i - 1))

C11_Witness ==
    \E r \in Reqs :
        /\ Len(req[r].events) = 3
        /\ req[r].events[1].type = "chunk" /\ req[r].events[1].content = "ab"
        /\ req[r].events[2].type = "chunk" /\ req[r].events[2].content = "cde"
        /\ req[r].events[3].type = "final" /\ req[r].events[3].full_content = "abcde"

\* C12: a stream of LLMGateway emits chunk events and then at most one
\* terminal event, final or error, after which it emits nothing; a stream
\* consumed to its end has emitted exactly one terminal event, the final event
\* when the vendor's stream completed and the error event when the provider
\* failed, before or after some chunks.
C12_StreamStateMachine ==
    \A r \in Reqs :
        LET events == req[r].events IN
        /\ \A i \in 1..(Len(events) - 1) : events[i].type = "chunk"
        /\ req[r].gen \in {"final", "error", "closed"}
             => /\ events # <<>>
                /\ Last(events).type \in {"final", "error"}
        /\ req[r].gen \in {"final", "error"} => Last(events).type = req[r].gen
        /\ req[r].gen \in {"created", "opening", "open", "yielded"}
             => \A i \in 1..Len(events) : events[i].type = "chunk"

C12_Witness ==
    \E r \in Reqs :
        /\ req[r].gen = "closed"
        /\ Len(req[r].events) = 2
        /\ req[r].events[1].type = "chunk"
        /\ req[r].events[2].type = "error"

\* the first available provider of an attempt order
FirstAvailable(order) == order[NextAvailable(order, 1)]

\* C13: a streaming request of LLMGateway calls at most one provider; once
\* its stream has been started it has called exactly one, the first available
\* provider of its attempt order, and a failure of that provider's stream,
\* before or after the first chunk, is followed by no other call.
C13_NoFallbackMidStream ==
    \A r \in Reqs :
        (component = "gateway" /\ req[r].args.stream /\ req[r].pc = "stream")
        => /\ Len(req[r].calls) <= 1
           /\ req[r].gen # "created"
                => req[r].calls = <<FirstAvailable(ProviderOrder(req[r].args.provider))>>

C13_Witness ==
    \E r \in Reqs :
        /\ req[r].args.stream /\ req[r].args.provider = None
        /\ fallback_order = <<"gemini", "openai">>
        /\ req[r].gen = "closed"
        /\ Len(req[r].events) = 2 /\ req[r].events[2].type = "error"
        /\ req[r].calls = <<"gemini">>

\* the input and output cost of a provider, per token in 1e-8 dollar; a
\* descriptor of LLMGateway has one cost, taken for both
InputCost(k) ==
    IF component = "gateway" THEN providers[k].cost_per_1k_tokens ELSE providers[k].input
OutputCost(k) ==
    IF component = "gateway" THEN providers[k].cost_per_1k_tokens ELSE providers[k].output

\* C14 (as specified): the cost of a response a provider produced is its
\* prompt tokens at the provider's input cost plus its completion tokens at
\* the provider's output cost.
C14_CostCorrectness ==
    \A r \in Reqs :
        req[r].outcome = "response"
        => req[r].result.cost =
             req[r].result.usage.prompt_tokens * InputCost(Last(req[r].calls))
             + req[r].result.usage.completion_tokens * OutputCost(Last(req[r].calls))

\* a provider whose cost fields are all zero
CostFree(k) == InputCost(k) = 0 /\ OutputCost(k) = 0

\* C15: a response produced by a provider whose cost fields are all zero,
\* returned by the provider's call or from the cache, has cost 0 whatever its
\* usage, and so has the final event of a stream of such a provider whatever
\* its estimated token count.
C15_FreeProvider ==
    \A r \in Reqs :
        /\ req[r].outcome \in {"response", "cached"}
             => \A k \in DOMAIN providers :
                    (providers[k].name = req[r].result.provider /\ CostFree(k))
                    => req[r].result.cost = 0
        /\ \A i \in 1..Len(req[r].events) :
             (req[r].events[i].type = "final" /\ CostFree(req[r].order[req[r].idx]))
             => req[r].events[i].estimated_cost = 0

C15_Witness ==
    \E r1, r2 \in Reqs :
        /\ req[r1].outcome = "response"
        /\ req[r1].calls = <<"gemini">>
        /\ req[r1].result.usage.total_tokens = 160
        /\ req[r1].result.cost = 0
        /\ req[r2].calls = <<"gemini">>
        /\ req[r2].gen = "final"
        /\ Last(req[r2].events).estimated_tokens = 1
        /\ Last(req[r2].events).estimated_cost = 0

\* C16 (as specified): every response a request returns carries a usage
\* record with the three counts present, none negative, and the total equal to
\* the sum of the prompt and the completion count.
C16_UsageConsistency ==
    \A r \in Reqs :
        req[r].outcome \in {"response", "cached"}
        => /\ req[r].result.usage_keys
           /\ req[r].result.usage.prompt_tokens >= 0
           /\ req[r].result.usage.completion_tokens >= 0
           /\ req[r].result.usage.total_tokens
                = req[r].result.usage.prompt_tokens + req[r].result.usage.completion_tokens

\* C17 (as specified): when the vendor answers a non-streaming request of
\* LLMGateway with a completion that carries no usage record, the request
\* returns that provider's response with cost 0; it neither raises nor calls
\* another provider.
C17_CostFailureNonFatal ==
    \A r \in Reqs :
        (component = "gateway" /\ req[r].vendor.status = "no_usage")
        => /\ req[r].pc = "done"
           /\ req[r].outcome = "response"
           /\ req[r].result.provider = providers[Last(req[r].calls)].name
           /\ req[r].result.cost = 0

\* C18: the final event of a stream of LLMGateway carries the full content, a
\* token count equal to the number of characters of the concatenated chunk
\* contents divided by 4 and rounded down, and a cost equal to that count at
\* the provider's cost; count and cost are in fields named as estimates, the
\* event has no usage field, and it carries the duration.
C18_StreamingEstimate ==
    \A r \in Reqs :
        \A i \in 1..Len(req[r].events) :
            req[r].events[i].type = "final"
            => LET event == req[r].events[i]
                   text == ConcatChunks(SubSeq(req[r].events, 1, i - 1))
               IN /\ {"full_content", "estimated_tokens", "estimated_cost",
                      "duration_seconds"} \subseteq DOMAIN event
                  /\ DOMAIN event \cap {"usage", "cost", "total_tokens"} = {}
                  /\ event.full_content = text
                  /\ 4 * event.estimated_tokens <= Len(text)
                  /\ Len(text) < 4 * (event.estimated_tokens + 1)
                  /\ event.estimated_cost
                       = event.estimated_tokens * StreamConfig(req[r]).cost_per_1k_tokens

C18_Witness ==
    \E r \in Reqs :
        /\ req[r].calls = <<"openai">>
        /\ req[r].gen = "final"
        /\ Last(req[r].events).full_content = "abcde"
        /\ Last(req[r].events).estimated_tokens = 1
        /\ Last(req[r].events).estimated_cost = 30000

\* the credential a provider of LLMGateway requires is set
Credentialed(k) ==
    CASE k = "gemini" -> "google_gemini_api_key" \in settings
      [] k = "openai" -> "openai_api_key" \in settings
      [] k = "azure_openai" ->
           "azure_openai_api_key" \in settings /\ "azure_openai_endpoint" \in settings
      [] k \in {"openrouter_cheap", "openrouter_premium"} -> "openrouter_api_key" \in settings

\* C19: LLMGateway is constructed under every combination of set and unset
\* credentials, its registry holding exactly the providers whose credential is
\* set, and no request calls a provider whose credential is missing, whether
\* it names that provider as the preferred one or not.
C19_MissingCredentials ==
    component = "gateway"
    => /\ DOMAIN providers = {k \in GatewayKeys : Credentialed(k)}
       /\ Range(fallback_order) = DOMAIN providers
       /\ \A k \in DOMAIN providers : providers[k].is_available
       /\ \A r \in Reqs : \A i \in 1..Len(req[r].calls) : Credentialed(req[r].calls[i])

C19_Witness ==
    \E r \in Reqs :
        /\ settings = {"openai_api_key", "azure_openai_api_key"}
        /\ req[r].args.provider = "azure_openai"
        /\ req[r].calls = <<"openai">>
        /\ req[r].outcome = "response"

\* C20: once the consumer of a stream of LLMGateway has stopped iterating
\* before the terminal event, no step reads a further fragment of the
\* vendor's stream, emits a further event or calls a provider for that request.
C20_StreamCancellation ==
    [][\A r \in Reqs :
         req[r].stopped
         => /\ req'[r].reads = req[r].reads
            /\ req'[r].events = req[r].events
            /\ req'[r].calls = req[r].calls
            /\ req'[r].full_content = req[r].full_content]_vars

C20_Witness ==
    \E r1, r2 \in Reqs :
        /\ req[r1].stopped
        /\ req[r1].gen = "yielded"
        /\ req[r1].reads = 1 /\ req[r1].reads < MaxChunks
        /\ Len(req[r1].events) = 1
        /\ r1 \in req[r2].after
        /\ req[r2].gen = "closed"

\* a sequence without repeated elements
NoDuplicates(s) == \A i, j \in 1..Len(s) : s[i] = s[j] => i = j

\* C21 (as specified): within one request of LLMManager no provider is called
\* more than once, whatever the preferred provider.
C21_NoDuplicateCalls ==
    \A r \in Reqs : component = "manager" => NoDuplicates(req[r].calls)

\* the provider call of a request that is in flight, if any
InFlight(q) ==
    IF q.pc = "awaiting" \/ (q.pc = "stream" /\ q.gen \in {"opening", "open", "yielded"})
    THEN {Len(q.calls)} ELSE {}

\* C22: within one request of LLMGateway or LLMManager the calls are made one
\* at a time: a step starts at most one call, and it starts one only as the
\* request's first call or in the step in which the request's previous call
\* ended without a usable answer; the call in flight is always the latest.
C22_SequentialAttempts ==
    [][\A r \in Reqs :
         /\ Len(req'[r].calls) <= Len(req[r].calls) + 1
         /\ InFlight(req'[r]) \subseteq {Len(req'[r].calls)}
         /\ Len(req'[r].calls) = Len(req[r].calls) + 1
              => \/ req[r].calls = <<>> /\ InFlight(req[r]) = {}
                 \/ /\ req[r].pc = "awaiting"
                    /\ req'[r].vendor.status \in {"raised", "no_usage"}
                    /\ req'[r].pc = "awaiting"]_vars

C22_Witness ==
    \E r \in Reqs :
        /\ req[r].calls = <<"gemini", "openai">>
        /\ req[r].pc = "awaiting"
        /\ req[r].vendor.status = "raised"

\* C23 (as specified): while a request waits for a provider's call, every
\* other request can still take its next step: one that has not started can
\* start, one that waits for its own provider can receive the answer.
C23_NoBlocking ==
    \A r, o \in Reqs :
        (o # r /\ req[r].pc = "awaiting")
            => /\ req[o].pc = "idle" => ENABLED (GBegin(o) \/ MBegin(o))
               /\ req[o].pc = "awaiting"
                    => ENABLED (GProviderReturns(o) \/ MProviderReturns(o))

\* the registry and the fallback order the constructor builds from the settings
ConstructedProviders ==
    IF component = "gateway" THEN GatewayProviders(settings) ELSE ManagerProviders(settings)
ConstructedFallbackOrder ==
    IF component = "gateway" THEN GatewayFallbackOrder(settings)
    ELSE DetermineFallbackOrder(ManagerProviders(settings), ollama_up)

\* C24: whatever the requests made so far and their outcomes, the provider
\* set, every provider's availability and the fallback order are those of
\* construction, and a request that starts after another one has ended, with
\* the same preferred provider, calls the same providers at the same
\* positions, the ones that failed in the earlier request included.
C24_AvailabilityNotInferred ==
    /\ providers = ConstructedProviders
    /\ fallback_order = ConstructedFallbackOrder
    /\ \A r, o \in Reqs :
         (/\ o \in req[r].after
          /\ ~req[r].args.stream /\ ~req[o].args.stream
          /\ req[r].args.provider = req[o].args.provider)
         => \A i \in 1..Len(req[r].calls) :
              i <= Len(req[o].calls) => req[r].calls[i] = req[o].calls[i]

C24_Witness ==
    \E r, o \in Reqs :
        /\ o \in req[r].after
        /\ req[o].outcome = "raised" /\ Len(req[o].calls) >= 2
        /\ req[r].args.provider = req[o].args.provider
        /\ req[r].calls = req[o].calls

\* the runs in which every provider call that is waited for ends: the vendor
\* answers, fails or runs into the client's timeout
TerminationSpec ==
    /\ Init /\ [][Next]_vars
    /\ \A r \in Reqs :
         /\ WF_vars(GProviderReturns(r) \/ GProviderRaises(r))
         /\ WF_vars(MProviderReturns(r) \/ MProviderRaises(r))

\* C25: a non-streaming request never makes more provider calls than its
\* attempt list is long, and, provider calls ending, a request that waits for
\* a provider ends: it returns a response (from a provider, or from the cache
\* entry of a later provider of its list) or raises.
C25_Termination ==
    /\ [](\A r \in Reqs : ~req[r].args.stream => Len(req[r].calls) <= Len(req[r].order))
    /\ \A r \in Reqs :
         (req[r].pc = "awaiting")
             ~> (req[r].pc = "done"
                 /\ req[r].outcome \in {"response", "cached", "raised"})

C25_Witness ==
    \E r \in Reqs :
        /\ req[r].pc = "done" /\ req[r].outcome = "raised"
        /\ Len(req[r].order) >= 2
        /\ Len(req[r].calls) = Len(req[r].order)

\* C26: a streaming request of LLMGateway with an available provider in its
\* attempt order returns an event stream and raises nothing; no provider has
\* been called when the stream is returned, the first call is made when the
\* consumer begins to iterate; a provider that fails, at the start of its
\* stream or partway, shows as an error event that names it and ends the stream.
C26_StreamingFailureIsEvent ==
    \A r \in Reqs :
        (/\ component = "gateway" /\ Begun(r) /\ req[r].args.stream
         /\ \E i \in 1..Len(req[r].order) : providers[req[r].order[i]].is_available)
        => /\ req[r].outcome = "stream" /\ req[r].pc = "stream"
           /\ req[r].error = IdleRequest.error
           /\ req[r].gen = "created" => req[r].calls = <<>> /\ req[r].events = <<>>
           /\ req[r].gen = "error"
                => /\ Len(req[r].calls) = 1
                   /\ Last(req[r].events).type = "error"
                   /\ Last(req[r].events).provider = providers[req[r].calls[1]].name
                   /\ Last(req[r].events).error \in ErrorDetails
           /\ \A i \in 1..Len(req[r].events) :
                req[r].events[i].type = "error"
                    => /\ i = Len(req[r].events)
                       /\ req[r].events[i].provider = providers[req[r].calls[1]].name

C26_Witness ==
    \E r \in Reqs :
        /\ component = "gateway" /\ req[r].args.stream
        /\ req[r].gen = "error"
        /\ Len(req[r].events) = 2
        /\ req[r].events[1].type = "chunk"
        /\ req[r].events[2] = [type |-> "error", error |-> "timeout",
                               provider |-> "OpenAI GPT-4"]

\* the preferred provider of the request is a name that is not registered
UnknownPreferred(q) == q.args.provider # None /\ q.args.provider \notin DOMAIN providers

\* C27: a request whose preferred provider is not a registered name tries the
\* configured fallback order and nothing else, and raises only when every
\* available provider has been called and failed; set beside the same request
\* with no preferred provider whose provider calls went the same way (as many
\* calls, the same last answer with the same token counts), it has
\* called the same providers in the same order and has the same outcome,
\* result and error.
C27_UnknownPreferredIgnored ==
    \A r \in Reqs :
        (Begun(r) /\ UnknownPreferred(req[r]))
        => /\ SelectSeqBy(req[r].order, DOMAIN providers) = fallback_order
           /\ IsPrefix(req[r].calls, AvailableOrder)
           /\ req[r].outcome = "raised" => req[r].calls = AvailableOrder
           /\ \A o \in Reqs :
                (/\ req[o].args = [req[r].args EXCEPT !.provider = None]
                 /\ req[o].pc = "done" /\ req[r].pc = "done"
                 /\ Len(req[o].calls) = Len(req[r].calls)
                 /\ req[o].vendor = req[r].vendor
                 /\ req[o].result.usage = req[r].result.usage)
                => /\ req[o].calls = req[r].calls
                   /\ req[o].outcome = req[r].outcome
                   /\ req[o].result = req[r].result
                   /\ req[o].error = req[r].error

C27_Witness ==
    \E r, o \in Reqs :
        /\ UnknownPreferred(req[r]) /\ req[o].args.provider = None
        /\ req[o].args = [req[r].args EXCEPT !.provider = None]
        /\ req[r].pc = "done" /\ req[o].pc = "done"
        /\ Len(req[r].calls) = 2 /\ req[o].calls = req[r].calls
        /\ req[r].outcome = "response" /\ req[o].result = req[r].result

\* the two rates of a provider added up
CostSum(k) == InputCost(k) + OutputCost(k)

\* C29: whenever get_cheapest_provider returns something new, it is None
\* exactly when no provider is available at the call, and otherwise the name
\* of a provider that is available at the call and such that no available
\* provider costs less, by its input rate, its output rate or their sum.
C29_CheapestProvider ==
    [][cheapest' # cheapest
         => /\ cheapest' = None <=> \A k \in DOMAIN providers : ~AvailableNow(k)
            /\ cheapest' # None
                 => /\ cheapest' \in DOMAIN providers
                    /\ AvailableNow(cheapest')
                    /\ \A k \in DOMAIN providers :
                         AvailableNow(k)
                             => /\ CostSum(k) >= CostSum(cheapest')
                                /\ InputCost(k) >= InputCost(cheapest')
                                /\ OutputCost(k) >= OutputCost(cheapest')]_vars

C29_Witness ==
    /\ component = "gateway"
    /\ fallback_order = <<"openai", "openrouter_cheap", "openrouter_premium">>
    /\ cheapest = "openrouter_cheap"

\* C28 (as specified): the fallback order of LLMManager has no provider twice,
\* holds exactly the providers that are available (Ollama aside, whose
\* availability is the answer of a probe at construction), and lists them by
\* cost: a provider never comes before one that costs less per token, so the
\* free providers come first and the paid ones in non-decreasing cost.
C28_FallbackOrderByCost ==
    component = "manager"
    => /\ NoDuplicates(fallback_order)
       /\ Range(fallback_order) \ {"ollama"}
            = {k \in DOMAIN providers \ {"ollama"} : providers[k].is_available}
       /\ \A i, j \in 1..Len(fallback_order) :
            i < j => /\ InputCost(fallback_order[i]) <= InputCost(fallback_order[j])
                     /\ OutputCost(fallback_order[i]) <= OutputCost(fallback_order[j])

\* C30: in LLMGateway, under every combination of the settings fields and
\* after any requests, fallback_order names no provider twice, names exactly
\* the keys of providers, and every registered provider has is_available
\* true; every name of a request's attempt order is a key of providers, so
\* the lookup self.providers[name] finds an entry.
C30_RegistryInvariant ==
    component = "gateway"
    => /\ NoDuplicates(fallback_order)
       /\ Range(fallback_order) = DOMAIN providers
       /\ \A k \in DOMAIN providers : providers[k].is_available
       /\ \A r \in Reqs : Range(req[r].order) \subseteq DOMAIN providers

C30_Witness ==
    /\ component = "gateway"
    /\ settings = {"azure_openai_api_key", "openrouter_api_key"}
    /\ DOMAIN providers = {"openrouter_cheap", "openrouter_premium"}
    /\ req[1].outcome = "raised"
    /\ req[1].calls = <<"openrouter_cheap", "openrouter_premium">>

====
